---- MODULE Spec2Model ----
(***************************************************************************)
(* dbz-oracle-diag: the report command (src/src/report.ts) and its         *)
(* recommendation engine computeRecommendations.                           *)
(*                                                                         *)
(* Number representation.  The engine works on JavaScript numbers; the     *)
(* model keeps them exact as integers in a fixed unit:                     *)
(*   - every sampled metric (min, max, avg, p95, HOURS, AVG_V) is in       *)
(*     hundredths of its unit (the SQL rounds to two decimals);            *)
(*   - a redo row's BYTES is in MiB, so BYTES / 1024^3 GB is BYTES / 1024; *)
(*   - a quotient the code leaves as a fraction (60 / p95, captured /      *)
(*     schema) is a pair <<numerator, denominator>>;                       *)
(*   - redoLogSizeGb as returned is in tenths of a GB (the code rounds it  *)
(*     to one decimal), hours and milliseconds are whole numbers.          *)
(* A JavaScript value that may be null is a sequence of length at most 1:  *)
(* null is << >> and a present value v is <<v>>.                           *)
(***************************************************************************)
EXTENDS Integers, Sequences, FiniteSets, TLC

\* ---------------------------------------------------------------- bounds
\* the largest number of redo-log groups (rows of v$log) in an input
MaxGroups == 5
\* the largest number of LOB columns in an input
MaxLobs == 2

\* ---------------------------------------------------------------- helpers
null == << >>

Some(v) == <<v>>

\* a ?? d
Coalesce(a, d) == IF a = null THEN d ELSE a[1]

Max(a, b) == IF a >= b THEN a ELSE b

\* Math.ceil(n / d) for n >= 0, d > 0
CeilDiv(n, d) == (n + d - 1) \div d

\* Math.round(n / d) for n >= 0, d > 0: halves round up
RoundDiv(n, d) == (2 * n + d) \div (2 * d)

\* ------------------------------------------------- the collected data (input)
\* one row of the aggregate query of getMetricStats; the aggregates are NULL
\* over no rows
StatRow(mn, av, p, mx, cnt) ==
    [MIN_V |-> Some(mn), MAX_V |-> Some(mx), AVG_V |-> Some(av),
     P95_V |-> Some(p), CNT |-> Some(cnt)]

NoSamplesRow ==
    [MIN_V |-> null, MAX_V |-> null, AVG_V |-> null, P95_V |-> null,
     CNT |-> Some(0)]

\* switches per hour: p95 zero, inside the band, just above 6, well above 6
SwitchRows ==
    { NoSamplesRow,
      StatRow(100, 300, 600, 800, 96),
      StatRow(200, 400, 601, 900, 96),
      StatRow(300, 500, 800, 1200, 96) }

\* archive GB per hour: nothing, p95 zero with a nonzero maximum, 4.01, 16
ArchiveRows ==
    { NoSamplesRow,
      StatRow(0, 20, 0, 900, 96),
      StatRow(50, 200, 401, 500, 96),
      StatRow(100, 800, 1600, 2000, 96) }

\* average archive file size in GB (AVG over the positive samples)
AvgSizes == { null, Some(600), Some(3000) }

\* oldest active transaction in minutes
TxnRows ==
    { NoSamplesRow,
      StatRow(0, 100, 200, 300, 96),
      StatRow(1000, 3000, 4500, 4500, 96),
      StatRow(0, 500, 1000, 10000, 96),
      StatRow(0, 2000, 10000, 12000, 96) }

\* archive window in hours
WindowRows ==
    { NoSamplesRow,
      StatRow(200, 300, 400, 500, 96),
      StatRow(2400, 2400, 2400, 2400, 96) }

\* redo log sizes in MiB: 50 MB, 200 MB, 1.25 GB, 4 GB
RedoBytes == { 50, 200, 1280, 4096 }

\* the redo_log_config row: missing, or the JSON array collectStatic stored
RedoConfigs ==
    { null } \cup
    { Some([i \in 1..n |-> [BYTES |-> b]]) :
        n \in {0, 2, MaxGroups}, b \in RedoBytes }

LobColumn(i) == [TABLE_NAME |-> "T", COLUMN_NAME |-> i]

\* the lob_columns row: missing, or the JSON array of the LOB columns
LobConfigs ==
    { null } \cup { Some([i \in 1..n |-> LobColumn(i)]) : n \in 0..MaxLobs }

\* captured_table_count and schema_table_count: both rows missing, an empty
\* schema, and ratios around the two thresholds 0.3 and 0.5
TableCounts ==
    { <<null, null>>, <<Some(0), Some(0)>>, <<Some(25), Some(100)>>,
      <<Some(30), Some(100)>>, <<Some(49), Some(100)>>,
      <<Some(50), Some(100)>>, <<Some(100), Some(100)>> }

\* the supplemental_logging row
SuppConfigs ==
    { null, Some(<< >>),
      Some(<<[SUPPLEMENTAL_LOG_DATA_MIN |-> "YES"]>>),
      Some(<<[SUPPLEMENTAL_LOG_DATA_MIN |-> "NO"]>>) }

\* the archive_lag_target row
LagConfigs ==
    { null, Some(<<[VALUE |-> Some(0)]>>), Some(<<[VALUE |-> Some(1800)]>>) }

\* the max_string_size row
MaxStringConfigs == { null, Some(<<[VALUE |-> Some("EXTENDED")]>>) }

\* HOURS of getSamplingDuration: NULL over an empty table
HoursValues == { null, Some(0), Some(50), Some(99), Some(100), Some(2400) }

DbState(h, sw, ar, av, tx, wi, redo, lob, tc, supp, lag, mss) ==
    [HOURS |-> h, switches |-> sw, archive_gb |-> ar,
     avg_archive_size_gb |-> av, oldest_txn_mins |-> tx,
     archive_window_hours |-> wi, redo_log_config |-> redo,
     lob_columns |-> lob, captured_table_count |-> tc[1],
     schema_table_count |-> tc[2], supplemental_logging |-> supp,
     archive_lag_target |-> lag, max_string_size |-> mss]

\* every combination of the sampled metrics and the redo configuration, with
\* two sets of the other static facts
MetricDbStates ==
    { DbState(Some(2400), sw, ar, av, tx, wi, redo, st[1], st[2], st[3],
              st[4], null) :
        sw \in SwitchRows, ar \in ArchiveRows, av \in AvgSizes,
        tx \in TxnRows, wi \in WindowRows, redo \in RedoConfigs,
        st \in { <<null, <<null, null>>, null, null>>,
                 <<Some(<<LobColumn(1)>>), <<Some(25), Some(100)>>,
                   Some(<<[SUPPLEMENTAL_LOG_DATA_MIN |-> "NO"]>>),
                   Some(<<[VALUE |-> Some(0)]>>)>> } }

\* every combination of the static facts, with four sets of metrics
StaticDbStates ==
    { DbState(Some(2400), m[1], StatRow(100, 800, 1600, 2000, 96), null,
              m[2], m[3],
              Some(<<[BYTES |-> 4096], [BYTES |-> 4096]>>), lob, tc, supp,
              lag, mss) :
        m \in { <<NoSamplesRow, NoSamplesRow, NoSamplesRow>>,
                <<StatRow(100, 300, 600, 800, 96), NoSamplesRow,
                  StatRow(200, 300, 400, 500, 96)>>,
                <<StatRow(300, 500, 800, 1200, 96),
                  StatRow(0, 2000, 10000, 12000, 96),
                  StatRow(200, 300, 400, 500, 96)>>,
                <<StatRow(200, 400, 601, 900, 96), NoSamplesRow,
                  StatRow(2400, 2400, 2400, 2400, 96)>> },
        lob \in LobConfigs, tc \in TableCounts, supp \in SuppConfigs,
        lag \in LagConfigs, mss \in MaxStringConfigs }

\* the gate: every HOURS value, over an empty and a populated sample table
GateDbStates ==
    { DbState(h, m, m, null, m, m,
              Some(<<[BYTES |-> 200], [BYTES |-> 200]>>), Some(<< >>),
              <<Some(100), Some(100)>>,
              Some(<<[SUPPLEMENTAL_LOG_DATA_MIN |-> "YES"]>>),
              Some(<<[VALUE |-> Some(1800)]>>), null) :
        h \in HoursValues,
        m \in { NoSamplesRow, StatRow(200, 300, 400, 500, 96) } }

DbStates == MetricDbStates \cup StaticDbStates \cup GateDbStates

\* --------------------------------------------------------- metric queries
\* rows[0]?.HOURS ?? 0
getSamplingDuration(d) == Coalesce(d.HOURS, 0)

getMetricStats(row) ==
    [min |-> Coalesce(row.MIN_V, 0), max |-> Coalesce(row.MAX_V, 0),
     avg |-> Coalesce(row.AVG_V, 0), p95 |-> Coalesce(row.P95_V, 0),
     samples |-> Coalesce(row.CNT, 0)]

getMetricAvg(v) == Coalesce(v, 0)

\* rows[0]?.CHECK_VALUE ?? null
getStaticRaw(d, checkName) ==
    CASE checkName = "redo_log_config" -> d.redo_log_config
      [] checkName = "lob_columns" -> d.lob_columns
      [] checkName = "captured_table_count" -> d.captured_table_count
      [] checkName = "schema_table_count" -> d.schema_table_count
      [] checkName = "supplemental_logging" -> d.supplemental_logging
      [] checkName = "archive_lag_target" -> d.archive_lag_target
      [] checkName = "max_string_size" -> d.max_string_size

\* null for a missing row, else the parsed JSON document
getStatic(d, checkName) ==
    LET raw == getStaticRaw(d, checkName)
    IN  IF raw = null THEN null ELSE raw

\* data is null or <<array>>
getArchiveLagTarget(data) ==
    IF data # null /\ Len(data[1]) > 0
    THEN Coalesce(data[1][1].VALUE, 0)
    ELSE 0

getMaxStringSize(data) ==
    IF data # null /\ Len(data[1]) > 0
    THEN Coalesce(data[1][1].VALUE, "STANDARD")
    ELSE "STANDARD"

\* the DiagReport literal of report(); the fields only the renderer reads
\* (activeTxnCount, archiveDiskUsedGb, captureSchema, captureTablePattern)
\* are left out
buildDiagReport(d, duration) ==
    [switchesPerHour |-> getMetricStats(d.switches),
     archiveGbPerHour |-> getMetricStats(d.archive_gb),
     avgArchiveFileSizeGb |-> getMetricAvg(d.avg_archive_size_gb),
     oldestTxnMinutes |-> getMetricStats(d.oldest_txn_mins),
     archiveWindowHours |-> getMetricStats(d.archive_window_hours),
     samplingDurationHours |-> duration,
     redoLogConfig |-> getStatic(d, "redo_log_config"),
     lobColumns |-> getStatic(d, "lob_columns"),
     capturedTableCount |-> Coalesce(getStaticRaw(d, "captured_table_count"), 0),
     schemaTableCount |-> Coalesce(getStaticRaw(d, "schema_table_count"), 0),
     supplementalLogging |-> getStatic(d, "supplemental_logging"),
     archiveLagTarget |-> getArchiveLagTarget(getStatic(d, "archive_lag_target")),
     maxStringSize |-> getMaxStringSize(getStatic(d, "max_string_size"))]

\* ------------------------------------------------- recommendation engine
\* r.lobColumns && r.lobColumns.length > 0
hasLobs(r) == r.lobColumns # null /\ Len(r.lobColumns[1]) > 0

\* ---- variants of the engine's steps, each a plausible slip in the code;
\* ---- the properties below are checked to tell each from the code

\* r.redoLogConfig.length: reading .length of null is a TypeError
redoLogConfigThrows(r) == r.redoLogConfig = null

\* in 1/1024 GB: BYTES / 1024^3 of the first row, else the 4 GB baseline
currentRedoSizeGb(r) ==
    IF Len(r.redoLogConfig[1]) > 0
    THEN r.redoLogConfig[1][1].BYTES
    ELSE 4 * 1024

currentGroups(r) == Len(r.redoLogConfig[1])

\* variant: the peak without the fallback to the maximum
peakGbPerHourNoFallback(r) == r.archiveGbPerHour.p95

\* r.archiveGbPerHour.p95 || r.archiveGbPerHour.max, in hundredths
peakGbPerHour(r) ==
    IF r.archiveGbPerHour.p95 # 0
    THEN r.archiveGbPerHour.p95
    ELSE r.archiveGbPerHour.max

\* in 1/1024 GB, before the rounding of the return statement
redoLogSizeGb(r) ==
    IF r.switchesPerHour.p95 > 600
    THEN Max(CeilDiv(peakGbPerHour(r), 4 * 100), 2) * 1024
    ELSE currentRedoSizeGb(r)

\* variant: truncating to one decimal instead of rounding
flooredRedoLogSizeGb(r) == (redoLogSizeGb(r) * 10) \div 1024

\* Math.round(redoLogSizeGb * 10) / 10, in tenths of a GB
roundedRedoLogSizeGb(r) == RoundDiv(redoLogSizeGb(r) * 10, 1024)

\* variant: a minimum of 3 groups
redoLogGroupsMin3(r) == Max(currentGroups(r), 3)

redoLogGroups(r) == Max(currentGroups(r), 4)

\* (avgArchiveFileSizeGb / 0.5) * 1, in hundredths of a minute
archiveWriteTimeMin(r) == 2 * r.avgArchiveFileSizeGb

logMinerSessionOverheadMin == 15

safetyBufferMin == 60

\* 60 / p95 minutes as <<numerator, denominator>>, else 30
switchIntervalMinP95(r) ==
    IF r.switchesPerHour.p95 > 0
    THEN <<60 * 100, r.switchesPerHour.p95>>
    ELSE <<30, 1>>

\* the denominator of minRetentionMin: hundredths of the interval's denominator
retentionDen(r) == 100 * switchIntervalMinP95(r)[2]

\* the three lower bounds, as numerators over retentionDen(r)
txnBoundMin(r) ==
    (r.oldestTxnMinutes.p95 + safetyBufferMin * 100) * switchIntervalMinP95(r)[2]

switchBoundMin(r) ==
    switchIntervalMinP95(r)[1] * 3 * 100
    + (archiveWriteTimeMin(r) + logMinerSessionOverheadMin * 100
       + safetyBufferMin * 100) * switchIntervalMinP95(r)[2]

floorBoundMin(r) == 120 * 100 * switchIntervalMinP95(r)[2]

\* numerator over retentionDen(r)
minRetentionMin(r) ==
    Max(Max(txnBoundMin(r), switchBoundMin(r)), floorBoundMin(r))

\* variant: Math.floor in place of Math.ceil
archiveRetentionHoursFloor(r) == minRetentionMin(r) \div (60 * retentionDen(r))

archiveRetentionHours(r) == CeilDiv(minRetentionMin(r), 60 * retentionDen(r))

\* Math.round(p95 * archiveRetentionHours), whole GB
retentionDiskGb(r) ==
    RoundDiv(r.archiveGbPerHour.p95 * archiveRetentionHours(r), 100)

\* variant: LOB capture switched on when LOB columns are present
lobEnabledWhenLobs(r) == hasLobs(r)

\* false at its declaration and false again when LOB columns are present
lobEnabled(r) == IF hasLobs(r) THEN FALSE ELSE FALSE

NoLobReason == [text |-> "No LOB columns in captured tables.", cites |-> << >>]

lobReason(r) ==
    IF hasLobs(r)
    THEN [text |-> "LOB column(s) found in captured tables.",
          cites |-> <<Len(r.lobColumns[1]), archiveRetentionHours(r) + 1>>]
    ELSE NoLobReason

\* variant: the retention capped at one hour
txnRetentionMsCapped(r) ==
    IF r.oldestTxnMinutes.p95 * 2 * 600 > 3600000
    THEN 3600000
    ELSE Max(r.oldestTxnMinutes.p95 * 2 * 600, 300000)

\* r.oldestTxnMinutes.p95 * 2 * 60 * 1000 with the 5 minute floor, in ms
txnRetentionMs(r) == Max(r.oldestTxnMinutes.p95 * 2 * 600, 300000)

heartbeatIntervalMs(r) == IF archiveRetentionHours(r) <= 2 THEN 10000 ELSE 30000

\* variant: an empty schema read as ratio 0
captureRatioZeroDefault(r) ==
    IF r.schemaTableCount > 0
    THEN <<r.capturedTableCount, r.schemaTableCount>>
    ELSE <<0, 1>>

\* captured / schema as <<numerator, denominator>>, else 1
captureRatio(r) ==
    IF r.schemaTableCount > 0
    THEN <<r.capturedTableCount, r.schemaTableCount>>
    ELSE <<1, 1>>

\* variant: the threshold 0.3 included
ratioAtMost03(r) == 10 * captureRatio(r)[1] <= 3 * captureRatio(r)[2]

\* captureRatio < 0.3
ratioBelow03(r) == 10 * captureRatio(r)[1] < 3 * captureRatio(r)[2]

\* variant: the threshold 0.5 included
ratioAtMost05(r) == 2 * captureRatio(r)[1] <= captureRatio(r)[2]

\* captureRatio < 0.5
ratioBelow05(r) == 2 * captureRatio(r)[1] < captureRatio(r)[2]

batchSizeDefault(r) == IF ratioBelow03(r) THEN 5000 ELSE 10000

batchSizeMax(r) == IF ratioBelow03(r) THEN 10000 ELSE 50000

queryFilterMode(r) == IF ratioBelow05(r) THEN "regex" ELSE "none"

maxRetries(r) == IF r.avgArchiveFileSizeGb > 500 THEN 30 ELSE 10

\* ---- the five warning checks: each is the sequence of what it pushes.
\* A warning is its kind and the values its text cites.
lobWarning(r) ==
    IF hasLobs(r)
    THEN <<[kind |-> "lob", cites |-> <<r.lobColumns[1], r.maxStringSize>>]>>
    ELSE << >>

queryFilterWarning(r) ==
    IF queryFilterMode(r) = "regex"
    THEN <<[kind |-> "query-filter", cites |-> captureRatio(r)]>>
    ELSE << >>

\* variant: a minimum switch rate of exactly 2 warned about as well
archiveLagWarningAtMost2(r) ==
    IF r.archiveLagTarget = 0 /\ r.switchesPerHour.min <= 200
    THEN <<[kind |-> "archive-lag", cites |-> <<r.switchesPerHour.min, 1800>>]>>
    ELSE << >>

archiveLagWarning(r) ==
    IF r.archiveLagTarget = 0 /\ r.switchesPerHour.min < 200
    THEN <<[kind |-> "archive-lag", cites |-> <<r.switchesPerHour.min, 1800>>]>>
    ELSE << >>

suppLogWarning(r) ==
    IF /\ r.supplementalLogging # null
       /\ Len(r.supplementalLogging[1]) > 0
       /\ r.supplementalLogging[1][1].SUPPLEMENTAL_LOG_DATA_MIN # "YES"
    THEN <<[kind |-> "supplemental-logging", cites |-> << >>]>>
    ELSE << >>

\* variant: the check without its samples guard
retentionRiskWarningNoGuard(r) ==
    IF r.archiveWindowHours.min < archiveRetentionHours(r) * 100
    THEN <<[kind |-> "retention-risk",
            cites |-> <<r.archiveWindowHours.min, archiveRetentionHours(r)>>]>>
    ELSE << >>

retentionRiskWarning(r) ==
    IF /\ r.archiveWindowHours.samples > 0
       /\ r.archiveWindowHours.min < archiveRetentionHours(r) * 100
    THEN <<[kind |-> "retention-risk",
            cites |-> <<r.archiveWindowHours.min, archiveRetentionHours(r)>>]>>
    ELSE << >>

\* variant: the archive window check made before the supplemental logging one
collectWarningsRiskEarly(r) ==
    lobWarning(r) \o queryFilterWarning(r) \o archiveLagWarning(r)
    \o retentionRiskWarning(r) \o suppLogWarning(r)

\* the pushes in the order the function makes them
collectWarnings(r) ==
    lobWarning(r) \o queryFilterWarning(r) \o archiveLagWarning(r)
    \o suppLogWarning(r) \o retentionRiskWarning(r)

\* the outcome of a call: a thrown TypeError, or the returned Recommendations
computeRecommendations(r) ==
    IF redoLogConfigThrows(r)
    THEN [threw |-> TRUE]
    ELSE [threw |-> FALSE,
          value |->
            [redoLogSizeGb |-> roundedRedoLogSizeGb(r),
             redoLogGroups |-> redoLogGroups(r),
             archiveRetentionHours |-> archiveRetentionHours(r),
             archiveRetentionDiskGb |-> retentionDiskGb(r),
             lobEnabled |-> lobEnabled(r),
             lobReason |-> lobReason(r),
             transactionRetentionMs |-> txnRetentionMs(r),
             heartbeatIntervalMs |-> heartbeatIntervalMs(r),
             batchSizeDefault |-> batchSizeDefault(r),
             batchSizeMax |-> batchSizeMax(r),
             maxRetries |-> maxRetries(r),
             queryFilterMode |-> queryFilterMode(r),
             archiveLogOnlyMode |-> FALSE,
             warnings |-> collectWarnings(r)]]

\* ---------------------------------------------- the database objects of setup
\* the views checkPrivileges probes
Views ==
    {"v$archived_log", "v$log", "v$database", "v$transaction", "v$parameter",
     "v$session"}

\* the check_name of each insertStatic of collectStatic, in order
StaticChecks ==
    <<"redo_log_config", "archive_destinations", "fra_config",
      "archive_lag_target", "supplemental_logging", "lob_columns",
      "captured_table_count", "schema_table_count", "max_string_size",
      "capture_schema", "capture_table_pattern">>

\* the diagnostic objects in the schema: each table and the scheduler job is
\* missing ("none"), left by an earlier setup ("old") or made by this run
\* ("new"); prior is what the command found when it started
Oracle(granted, samples, static, job) ==
    [granted |-> granted,
     samples |-> samples, sampleRows |-> IF samples = "old" THEN 1 ELSE 0,
     static |-> static,
     staticRows |-> IF static = "old" THEN Len(StaticChecks) ELSE 0,
     job |-> job, jobRuns |-> 0, jobFailed |-> FALSE,
     prior |-> [samples |-> samples, static |-> static, job |-> job]]

\* the installation report() reads: both tables and the job of a past setup
ReportInstall == Oracle(Views, "old", "old", "old")

\* ------------------------------------------------------------ the commands
VARIABLES
    db,               \* the collected data in the two diagnostic tables
    pc,               \* where the command is
    conn,             \* the connection of withConnection
    closes,           \* how many times conn.close() was called
    duration,         \* report's local: the sampling duration, in hundredths
    diagReport,       \* report's local: null until the literal is built
    recommendations,  \* diagReport.recommendations: null until the engine returns
    error,            \* the exception propagating out of the callback
    files,            \* the files written to the output directory
    cmd,              \* the command: "report", "setup" or "teardown"
    ora,              \* the diagnostic tables and job setup and teardown manage
    warnings,         \* the warnings array of the engine's latest call
    history           \* the calls made to the engine: snapshot and outcome

vars ==
    <<db, pc, conn, closes, duration, diagReport, recommendations, error,
      files, cmd, ora, warnings, history>>

\* what report() never touches
notReport == <<cmd, ora, warnings, history>>

Init ==
    /\ db \in DbStates
    /\ pc = "idle"
    /\ conn = "none"
    /\ closes = 0
    /\ duration = 0
    /\ diagReport = null
    /\ recommendations = null
    /\ error = "none"
    /\ files = {}
    /\ cmd = "report"
    /\ ora = ReportInstall
    /\ warnings = << >>
    /\ history = << >>

\* withConnection opens the connection and calls the callback
Connect ==
    /\ pc = "idle"
    /\ cmd = "report"
    /\ conn' = "open"
    /\ pc' = "gate"
    /\ UNCHANGED <<db, closes, duration, diagReport, recommendations, error,
                   files, notReport>>

\* variant: the gate reports the short duration and goes on
GateNoReturn ==
    /\ pc = "gate"
    /\ duration' = getSamplingDuration(db)
    /\ pc' = "build"
    /\ UNCHANGED <<db, conn, closes, diagReport, recommendations, error,
                   files, notReport>>

\* the one-hour gate: below 1 hour the callback returns
Gate ==
    /\ pc = "gate"
    /\ duration' = getSamplingDuration(db)
    /\ pc' = IF getSamplingDuration(db) < 100 THEN "finally" ELSE "build"
    /\ UNCHANGED <<db, conn, closes, diagReport, recommendations, error,
                   files, notReport>>

\* the DiagReport literal, with recommendations still empty
Build ==
    /\ pc = "build"
    /\ diagReport' = Some(buildDiagReport(db, duration))
    /\ pc' = "compute"
    /\ UNCHANGED <<db, conn, closes, duration, recommendations, error, files,
                   notReport>>

\* diagReport.recommendations = computeRecommendations(diagReport)
Compute ==
    /\ pc = "compute"
    /\ LET out == computeRecommendations(diagReport[1])
       IN  IF out.threw
           THEN /\ error' = "TypeError"
                /\ pc' = "finally"
                /\ UNCHANGED recommendations
           ELSE /\ recommendations' = Some(out.value)
                /\ pc' = "write_md"
                /\ UNCHANGED error
    /\ UNCHANGED <<db, conn, closes, duration, diagReport, files, notReport>>

WriteMd ==
    /\ pc = "write_md"
    /\ files' = files \cup {"dbz-diag-report.md"}
    /\ pc' = "write_env"
    /\ UNCHANGED <<db, conn, closes, duration, diagReport, recommendations,
                   error, notReport>>

WriteEnv ==
    /\ pc = "write_env"
    /\ files' = files \cup {"dbz-recommended.env"}
    /\ pc' = "finally"
    /\ UNCHANGED <<db, conn, closes, duration, diagReport, recommendations,
                   error, notReport>>

\* variant: the close after the await instead of in a finally block
CloseOnSuccessOnly ==
    /\ pc = "finally"
    /\ conn' = IF error = "none" THEN "closed" ELSE conn
    /\ closes' = IF error = "none" THEN closes + 1 ELSE closes
    /\ pc' = IF error = "none" THEN "done" ELSE "failed"
    /\ UNCHANGED <<db, duration, diagReport, recommendations, error, files,
                   notReport>>

\* the finally block of withConnection; the error, if any, reaches the caller
Close ==
    /\ pc = "finally"
    /\ conn' = "closed"
    /\ closes' = closes + 1
    /\ pc' = IF error = "none" THEN "done" ELSE "failed"
    /\ UNCHANGED <<db, duration, diagReport, recommendations, error, files,
                   notReport>>

Next ==
    \/ Connect
    \/ Gate
    \/ Build
    \/ Compute
    \/ WriteMd
    \/ WriteEnv
    \/ Close

Spec == Init /\ [][Next]_vars

\* ------------------------------------------------- setup and teardown
\* the largest number of times the scheduler fires the sampler job in a run
MaxJobRuns == 2

\* the data of a run that does not read it
IdleDb ==
    DbState(null, NoSamplesRow, NoSamplesRow, null, NoSamplesRow,
            NoSamplesRow, null, null, <<null, null>>, null, null, null)

\* the data of the report runs beside setup and teardown: the gate's cases
\* and one installation without its redo_log_config row
CliDbStates ==
    GateDbStates \cup
    { DbState(Some(2400), NoSamplesRow, NoSamplesRow, null, NoSamplesRow,
              NoSamplesRow, null, null, <<null, null>>, null, null, null) }

\* what setup and teardown never touch
reportLocals == <<db, duration, diagReport, recommendations, files, warnings,
                  history, cmd>>

InitCli ==
    /\ pc = "idle"
    /\ conn = "none"
    /\ closes = 0
    /\ duration = 0
    /\ diagReport = null
    /\ recommendations = null
    /\ error = "none"
    /\ files = {}
    /\ warnings = << >>
    /\ history = << >>
    /\ \/ /\ cmd = "report"
          /\ db \in CliDbStates
          /\ ora = ReportInstall
       \/ /\ cmd = "setup"
          /\ db = IdleDb
          /\ ora \in { Oracle(g, s, t, j) :
                         g \in SUBSET Views, s \in {"none", "old"},
                         t \in {"none", "old"}, j \in {"none", "old"} }
       \/ /\ cmd = "teardown"
          /\ db = IdleDb
          /\ ora \in { Oracle(Views, s, t, j) :
                         s \in {"none", "old"}, t \in {"none", "old"},
                         j \in {"none", "old"} }

\* withConnection called by setup
SetupConnect ==
    /\ pc = "idle"
    /\ cmd = "setup"
    /\ conn' = "open"
    /\ pc' = "s_check"
    /\ UNCHANGED <<closes, error, ora, reportLocals>>

\* variant: the missing privileges are reported and setup goes on
CheckPrivilegesNoThrow ==
    /\ pc = "s_check"
    /\ pc' = "s_drop_samples"
    /\ UNCHANGED <<conn, closes, error, ora, reportLocals>>

\* the six probes; any failure throws "Insufficient privileges"
CheckPrivileges ==
    /\ pc = "s_check"
    /\ LET missing == Views \ ora.granted
       IN  IF missing # {}
           THEN /\ error' = "Insufficient privileges"
                /\ pc' = "finally"
           ELSE /\ pc' = "s_drop_samples"
                /\ UNCHANGED error
    /\ UNCHANGED <<conn, closes, ora, reportLocals>>

\* DROP TABLE ... PURGE; a missing table is caught and ignored
DropSamplesTable(o) == [o EXCEPT !.samples = "none", !.sampleRows = 0]

DropStaticTable(o) == [o EXCEPT !.static = "none", !.staticRows = 0]

\* DBMS_SCHEDULER.DROP_JOB; a missing job is caught and ignored
DropJob(o) == [o EXCEPT !.job = "none"]

\* createTables: the two drops, then the two creates
SetupDropSamples ==
    /\ pc = "s_drop_samples"
    /\ ora' = DropSamplesTable(ora)
    /\ pc' = "s_drop_static"
    /\ UNCHANGED <<conn, closes, error, reportLocals>>

SetupDropStatic ==
    /\ pc = "s_drop_static"
    /\ ora' = DropStaticTable(ora)
    /\ pc' = "s_create_samples"
    /\ UNCHANGED <<conn, closes, error, reportLocals>>

SetupCreateSamples ==
    /\ pc = "s_create_samples"
    /\ ora' = [ora EXCEPT !.samples = "new", !.sampleRows = 0]
    /\ pc' = "s_create_static"
    /\ UNCHANGED <<conn, closes, error, reportLocals>>

SetupCreateStatic ==
    /\ pc = "s_create_static"
    /\ ora' = [ora EXCEPT !.static = "new", !.staticRows = 0]
    /\ pc' = "s_collect"
    /\ UNCHANGED <<conn, closes, error, reportLocals>>

\* collectStatic: one insertStatic after another
InsertStatic ==
    /\ pc = "s_collect"
    /\ ora' = [ora EXCEPT !.staticRows = @ + 1]
    /\ pc' = IF ora.staticRows + 1 = Len(StaticChecks)
             THEN "s_drop_job"
             ELSE "s_collect"
    /\ UNCHANGED <<conn, closes, error, reportLocals>>

\* createSamplerJob: drop the job, create it enabled, run it once
SetupDropJob ==
    /\ pc = "s_drop_job"
    /\ ora' = DropJob(ora)
    /\ pc' = "s_create_job"
    /\ UNCHANGED <<conn, closes, error, reportLocals>>

SetupCreateJob ==
    /\ pc = "s_create_job"
    /\ ora' = [ora EXCEPT !.job = "new"]
    /\ pc' = "s_run_job"
    /\ UNCHANGED <<conn, closes, error, reportLocals>>

SetupRunJob ==
    /\ pc = "s_run_job"
    /\ ora' = [ora EXCEPT !.sampleRows = @ + 1]
    /\ pc' = "finally"
    /\ UNCHANGED <<conn, closes, error, reportLocals>>

\* withConnection called by teardown
TeardownConnect ==
    /\ pc = "idle"
    /\ cmd = "teardown"
    /\ conn' = "open"
    /\ pc' = "t_drop_job"
    /\ UNCHANGED <<closes, error, ora, reportLocals>>

TeardownDropJob ==
    /\ pc = "t_drop_job"
    /\ ora' = DropJob(ora)
    /\ pc' = "t_drop_samples"
    /\ UNCHANGED <<conn, closes, error, reportLocals>>

TeardownDropSamples ==
    /\ pc = "t_drop_samples"
    /\ ora' = DropSamplesTable(ora)
    /\ pc' = "t_drop_static"
    /\ UNCHANGED <<conn, closes, error, reportLocals>>

TeardownDropStatic ==
    /\ pc = "t_drop_static"
    /\ ora' = DropStaticTable(ora)
    /\ pc' = "finally"
    /\ UNCHANGED <<conn, closes, error, reportLocals>>

\* the scheduler fires the enabled job: its PL/SQL block inserts into
\* DBZ_DIAG_SAMPLES, and fails when that table is missing
JobFires ==
    /\ ora.job # "none"
    /\ ora.jobRuns < MaxJobRuns
    /\ ora' = IF ora.samples # "none"
              THEN [ora EXCEPT !.jobRuns = @ + 1, !.sampleRows = @ + 1]
              ELSE [ora EXCEPT !.jobRuns = @ + 1, !.jobFailed = TRUE]
    /\ UNCHANGED <<pc, conn, closes, error, reportLocals>>

\* a step of the running command
CommandStep ==
    \/ Next
    \/ SetupConnect
    \/ CheckPrivileges
    \/ SetupDropSamples
    \/ SetupDropStatic
    \/ SetupCreateSamples
    \/ SetupCreateStatic
    \/ InsertStatic
    \/ SetupDropJob
    \/ SetupCreateJob
    \/ SetupRunJob
    \/ TeardownConnect
    \/ TeardownDropJob
    \/ TeardownDropSamples
    \/ TeardownDropStatic

NextCli ==
    \/ CommandStep
    \/ JobFires

SpecCli == InitCli /\ [][NextCli]_vars

\* ------------------------------------------- the engine called repeatedly
\* the largest number of engine calls of a run
MaxCalls == 3

\* the snapshots a caller holds: with and without LOB columns, with each
\* archive_lag_target, and one without its redo_log_config row
EngineDbStates ==
    { DbState(Some(2400), StatRow(300, 500, 800, 1200, 96),
              StatRow(100, 800, 1600, 2000, 96), null,
              StatRow(0, 2000, 10000, 12000, 96),
              StatRow(200, 300, 400, 500, 96),
              Some(<<[BYTES |-> 4096], [BYTES |-> 4096]>>), lob,
              <<Some(25), Some(100)>>,
              Some(<<[SUPPLEMENTAL_LOG_DATA_MIN |-> "NO"]>>), lag, null) :
        lob \in { null, Some(<<LobColumn(1)>>) }, lag \in LagConfigs }
    \cup
    { DbState(Some(2400), NoSamplesRow, NoSamplesRow, null, NoSamplesRow,
              NoSamplesRow, null, null, <<null, null>>, null, null, null) }

EngineSnapshots ==
    { buildDiagReport(d, getSamplingDuration(d)) : d \in EngineDbStates }

\* variant: the warnings array outlives the call
leakedWarnings(prev) == prev

\* const warnings: string[] = [] at the head of every call
freshWarnings(prev) == << >>

InitEngine ==
    /\ db = IdleDb
    /\ pc = "idle"
    /\ conn = "none"
    /\ closes = 0
    /\ duration = 0
    /\ diagReport = null
    /\ recommendations = null
    /\ error = "none"
    /\ files = {}
    /\ cmd = "report"
    /\ ora = ReportInstall
    /\ warnings = << >>
    /\ history = << >>

\* one call of computeRecommendations: the warnings array is set up, the
\* call's warnings are pushed onto it, and that array is what is returned
CallEngine ==
    /\ Len(history) < MaxCalls
    /\ \E r \in EngineSnapshots :
         LET out == computeRecommendations(r)
             pushed == IF out.threw THEN << >> ELSE out.value.warnings
             acc == freshWarnings(warnings) \o pushed
             outcome == IF out.threw
                        THEN [threw |-> TRUE, value |-> null]
                        ELSE [threw |-> FALSE,
                              value |-> Some([out.value EXCEPT
                                                !.warnings = acc])]
         IN  /\ warnings' = acc
             /\ history' = Append(history,
                                  [snapshot |-> r, outcome |-> outcome])
    /\ UNCHANGED <<db, pc, conn, closes, duration, diagReport,
                   recommendations, error, files, cmd, ora>>

NextEngine == CallEngine

SpecEngine == InitEngine /\ [][NextEngine]_vars

\* ------------------------------------------------------------- properties
\* the engine has returned in this run of report()
Returned == recommendations # null

\* the snapshot the engine was called on, and what it returned
snap == diagReport[1]

rec == recommendations[1]

HasWarning(k) ==
    \E i \in 1..Len(rec.warnings) : rec.warnings[i].kind = k

\* h hours are at least each of the three lower bounds of the archive
\* retention, the switch interval being num / den minutes; the metrics are in
\* hundredths, so every bound is multiplied out by 100 * den
CoversBounds(h, num, den) ==
    /\ h * 60 * 100 >= snap.oldestTxnMinutes.p95 + 60 * 100
    /\ h * 60 * 100 * den >=
          3 * num * 100
          + (2 * snap.avgArchiveFileSizeGb + 15 * 100 + 60 * 100) * den
    /\ h * 60 >= 120

\* C1: for every snapshot report() can build, computeRecommendations returns
\* a Recommendations value and never throws, missing static rows included
C1_NeverThrows ==
    (diagReport # null /\ pc # "compute") => (Returned /\ error = "none")

\* C2: archiveRetentionHours is the ceiling in hours of the maximum of the
\* three lower bounds in minutes: it covers each bound, one hour less does
\* not, and it is at least 2
C2_ArchiveRetentionCeiling ==
    Returned =>
        LET h == rec.archiveRetentionHours
            s == snap.switchesPerHour.p95
            num == IF s # 0 THEN 60 * 100 ELSE 30
            den == IF s # 0 THEN s ELSE 1
        IN  /\ CoversBounds(h, num, den)
            /\ ~CoversBounds(h - 1, num, den)
            /\ h >= 2

\* a retention above the floor, set by the switch-interval bound alone
C2_Witness ==
    /\ Returned
    /\ snap.switchesPerHour.p95 = 601
    /\ snap.oldestTxnMinutes.p95 = 0
    /\ rec.archiveRetentionHours = 3

\* C3: transactionRetentionMs is twice the p95 transaction age in ms, or
\* 300000 when that is smaller; it is never below 300000 and is not capped
C3_TxnRetention ==
    Returned =>
        LET twice == snap.oldestTxnMinutes.p95 * 1200
        IN  /\ twice >= 300000 => rec.transactionRetentionMs = twice
            /\ twice < 300000 => rec.transactionRetentionMs = 300000
            /\ rec.transactionRetentionMs >= 300000

\* a p95 of 100 minutes gives 200 minutes of retention
C3_Witness ==
    /\ Returned
    /\ snap.oldestTxnMinutes.p95 = 10000
    /\ rec.transactionRetentionMs = 12000000

\* C4: transactionRetentionMs is at least the longest observed transaction
\* (oldestTxnMinutes.max in ms) and strictly below the archive retention
C4_TxnRetentionBetween ==
    Returned =>
        /\ rec.transactionRetentionMs >= snap.oldestTxnMinutes.max * 600
        /\ rec.transactionRetentionMs < rec.archiveRetentionHours * 3600000

\* the rows of the redo-log configuration the engine was called on
redoRows == snap.redoLogConfig[1]

\* C5 as stated: with a p95 switch rate of at most 6 per hour redoLogSizeGb
\* is exactly the configured per-group size (the first row's BYTES in GB),
\* and 4 GB with no rows.  redoLogSizeGb is in tenths and BYTES in 1/1024 GB.
C5_KeepsExactSize ==
    (Returned /\ snap.switchesPerHour.p95 <= 600) =>
        IF Len(redoRows) > 0
        THEN rec.redoLogSizeGb * 1024 = redoRows[1].BYTES * 10
        ELSE rec.redoLogSizeGb = 40

\* C5 amended: with a p95 switch rate of at most 6 per hour redoLogSizeGb is
\* the configured per-group size rounded to the nearest tenth of a GB, a half
\* rounding up, and 4 GB with an empty list of rows
C5_KeepsRoundedSize ==
    (Returned /\ snap.switchesPerHour.p95 <= 600) =>
        IF Len(redoRows) > 0
        THEN /\ 2 * rec.redoLogSizeGb * 1024 > 2 * redoRows[1].BYTES * 10 - 1024
             /\ 2 * rec.redoLogSizeGb * 1024 <= 2 * redoRows[1].BYTES * 10 + 1024
        ELSE rec.redoLogSizeGb = 40

\* 200 MB groups inside the band: 0.1953 GB is returned as 0.2
C5_Witness ==
    /\ Returned
    /\ snap.switchesPerHour.p95 = 600
    /\ Len(redoRows) > 0
    /\ redoRows[1].BYTES = 200
    /\ rec.redoLogSizeGb = 2

\* C6: with a p95 switch rate above 6 per hour redoLogSizeGb is
\* max(ceil(peak / 4), 2) whole GB, peak being archiveGbPerHour.p95 or, when
\* that is zero, archiveGbPerHour.max
C6_ResizedFromPeak ==
    (Returned /\ snap.switchesPerHour.p95 > 600) =>
        LET peak == IF snap.archiveGbPerHour.p95 = 0
                    THEN snap.archiveGbPerHour.max
                    ELSE snap.archiveGbPerHour.p95
            gb == rec.redoLogSizeGb \div 10
        IN  /\ rec.redoLogSizeGb = gb * 10
            /\ gb >= 2
            /\ gb * 4 * 100 >= peak
            /\ gb > 2 => (gb - 1) * 4 * 100 < peak

\* the fallback: p95 zero, maximum 9 GB/h, so ceil(9 / 4) = 3 GB
C6_Witness ==
    /\ Returned
    /\ snap.switchesPerHour.p95 > 600
    /\ snap.archiveGbPerHour.p95 = 0
    /\ snap.archiveGbPerHour.max = 900
    /\ rec.redoLogSizeGb = 30

\* C7: redoLogGroups is max(number of redo-log rows, 4): never below 4,
\* never below the current count, and 4 with no rows
C7_GroupsAtLeastFour ==
    Returned =>
        /\ rec.redoLogGroups >= 4
        /\ rec.redoLogGroups >= Len(redoRows)
        /\ rec.redoLogGroups \in {4, Len(redoRows)}
        /\ Len(redoRows) = 0 => rec.redoLogGroups = 4

\* fewer than 4 groups configured: 4 are recommended
C7_Witness ==
    /\ Returned
    /\ Len(redoRows) = 2
    /\ rec.redoLogGroups = 4

\* the snapshot has at least one LOB column
LobsPresent ==
    snap.lobColumns # null /\ snap.lobColumns[1] # << >>

\* C8: lobEnabled and archiveLogOnlyMode are false whether or not LOB
\* columns are present; the LOB warning is in warnings exactly when
\* lobColumns is non-empty; with no LOB columns the rationale is the fixed
\* "No LOB columns" string
C8_LobAlwaysDisabled ==
    Returned =>
        /\ rec.lobEnabled = FALSE
        /\ rec.archiveLogOnlyMode = FALSE
        /\ HasWarning("lob") <=> LobsPresent
        /\ ~LobsPresent =>
              rec.lobReason.text = "No LOB columns in captured tables."
        /\ LobsPresent =>
              rec.lobReason.text # "No LOB columns in captured tables."

\* LOB columns present: the warning is there and the flag is still false
C8_Witness ==
    /\ Returned
    /\ LobsPresent
    /\ HasWarning("lob")
    /\ rec.lobEnabled = FALSE

\* C9: the retention-risk warning is in warnings if and only if
\* archiveWindowHours has at least one sample and its minimum is below the
\* archiveRetentionHours of the same call
C9_RetentionRiskIff ==
    Returned =>
        (HasWarning("retention-risk") <=>
            /\ snap.archiveWindowHours.samples > 0
            /\ snap.archiveWindowHours.min < rec.archiveRetentionHours * 100)

\* a minimum window of 2 h against a recommended 3 h
C9_Witness ==
    /\ Returned
    /\ snap.archiveWindowHours.min = 200
    /\ rec.archiveRetentionHours = 3
    /\ HasWarning("retention-risk")

\* C10: a zero p95 switch rate gives a switch interval of 30 minutes in the
\* retention, and a zero schemaTableCount gives the full-capture outputs:
\* batch sizes 10000 and 50000, queryFilterMode "none", no query-filter
\* warning
C10_ZeroDivisorsDefaulted ==
    Returned =>
        /\ snap.switchesPerHour.p95 = 0 =>
              /\ CoversBounds(rec.archiveRetentionHours, 30, 1)
              /\ ~CoversBounds(rec.archiveRetentionHours - 1, 30, 1)
        /\ snap.schemaTableCount = 0 =>
              /\ rec.batchSizeDefault = 10000
              /\ rec.batchSizeMax = 50000
              /\ rec.queryFilterMode = "none"
              /\ ~HasWarning("query-filter")

\* both divisors zero in one call; 3 * 30 + 75 minutes give 3 hours
C10_Witness ==
    /\ Returned
    /\ snap.switchesPerHour.p95 = 0
    /\ snap.schemaTableCount = 0
    /\ snap.avgArchiveFileSizeGb = 0
    /\ snap.oldestTxnMinutes.p95 = 0
    /\ rec.archiveRetentionHours = 3
    /\ rec.batchSizeDefault = 10000

\* C11: the batch sizes are (5000, 10000) when captured / schema < 0.3 and
\* (10000, 50000) otherwise, so batchSizeDefault < batchSizeMax
C11_BatchSizes ==
    Returned =>
        LET below == /\ snap.schemaTableCount > 0
                     /\ 10 * snap.capturedTableCount < 3 * snap.schemaTableCount
        IN  /\ below => (rec.batchSizeDefault = 5000 /\ rec.batchSizeMax = 10000)
            /\ ~below => (rec.batchSizeDefault = 10000 /\ rec.batchSizeMax = 50000)
            /\ rec.batchSizeDefault < rec.batchSizeMax

\* 25 of 100 tables captured: the small batch sizes
C11_Witness ==
    /\ Returned
    /\ snap.capturedTableCount = 25
    /\ snap.schemaTableCount = 100
    /\ rec.batchSizeDefault = 5000
    /\ rec.batchSizeMax = 10000

\* C12: queryFilterMode is "regex" exactly when the capture ratio is below
\* 0.5 and "none" otherwise, and the query-filter warning is in warnings
\* exactly when queryFilterMode is "regex"
C12_QueryFilterMode ==
    Returned =>
        LET below == /\ snap.schemaTableCount > 0
                     /\ 2 * snap.capturedTableCount < snap.schemaTableCount
        IN  /\ below => rec.queryFilterMode = "regex"
            /\ ~below => rec.queryFilterMode = "none"
            /\ HasWarning("query-filter") <=> rec.queryFilterMode = "regex"

\* 49 of 100 tables captured: regex, with its warning
C12_Witness ==
    /\ Returned
    /\ snap.capturedTableCount = 49
    /\ snap.schemaTableCount = 100
    /\ rec.queryFilterMode = "regex"
    /\ HasWarning("query-filter")

\* C13: the archive-lag warning (recommending archive_lag_target = 1800) is
\* in warnings if and only if the configured archiveLagTarget is 0 and
\* switchesPerHour.min is below 2
C13_ArchiveLagIff ==
    Returned =>
        /\ HasWarning("archive-lag") <=>
              (snap.archiveLagTarget = 0 /\ snap.switchesPerHour.min < 200)
        /\ \A i \in 1..Len(rec.warnings) :
              rec.warnings[i].kind = "archive-lag" =>
                  rec.warnings[i].cites[2] = 1800
        /\ (db.archive_lag_target # null /\ db.archive_lag_target[1] # << >>) =>
              snap.archiveLagTarget = db.archive_lag_target[1][1].VALUE[1]

\* archive_lag_target stored as 0 and a minimum of 1 switch per hour
C13_Witness ==
    /\ Returned
    /\ db.archive_lag_target = Some(<<[VALUE |-> Some(0)]>>)
    /\ snap.switchesPerHour.min = 100
    /\ HasWarning("archive-lag")

\* the place of a warning kind in the fixed order
WarningRank(k) ==
    CASE k = "lob" -> 1
      [] k = "query-filter" -> 2
      [] k = "archive-lag" -> 3
      [] k = "supplemental-logging" -> 4
      [] k = "retention-risk" -> 5

\* C14: warnings holds each of the five kinds at most once and in the order
\* LOB, query-filter, archive-lag, supplemental-logging, retention-risk
C14_WarningOrder ==
    Returned =>
        \A i, j \in 1..Len(rec.warnings) :
            i < j =>
                WarningRank(rec.warnings[i].kind) < WarningRank(rec.warnings[j].kind)

\* all five warnings in one call
C14_Witness ==
    /\ Returned
    /\ Len(rec.warnings) = 5

C16_GateBeforeEngine ==
    /\ getSamplingDuration(db) < 100 =>
          /\ pc \notin {"build", "compute", "write_md", "write_env"}
          /\ diagReport = null
          /\ recommendations = null
          /\ files = {}
    /\ files # {} => (duration >= 100 /\ Returned)

\* a report over an empty sample table ended with nothing written
C16_Witness ==
    /\ pc = "done"
    /\ db.HOURS = null
    /\ diagReport = null
    /\ files = {}

\* C18: withConnection opens one connection for the command's callback and
\* closes it exactly once whether the callback returned or threw; the
\* callback's result or error is what the command ends with, and an open
\* connection always has a next step of the command towards its close.
C18_ConnectionClosedOnce ==
    /\ closes <= 1
    /\ conn = "open" => (closes = 0 /\ ENABLED CommandStep)
    /\ pc \in {"done", "failed"} => (conn = "closed" /\ closes = 1)
    /\ pc = "done" => error = "none"
    /\ pc = "failed" => error # "none"

\* C18 witness: a callback that threw, with its connection closed once
C18_Witness ==
    /\ pc = "failed"
    /\ error # "none"
    /\ conn = "closed"
    /\ closes = 1

\* C19: when a required view cannot be read, setup stops with
\* "Insufficient privileges" before it drops, creates or fills any table and
\* before it touches the sampler job.
C19_PrivilegesFirst ==
    (cmd = "setup" /\ ora.granted # Views) =>
        /\ ora.samples = ora.prior.samples
        /\ ora.static = ora.prior.static
        /\ ora.job = ora.prior.job
        /\ ora.staticRows = (IF ora.prior.static = "old"
                             THEN Len(StaticChecks) ELSE 0)
        /\ ora.sampleRows >= (IF ora.prior.samples = "old" THEN 1 ELSE 0)
        /\ pc \in {"idle", "s_check", "finally", "failed"}
        /\ pc \in {"finally", "failed"} => error = "Insufficient privileges"

\* C19 witness: setup over an installation failed on a missing privilege
C19_Witness ==
    /\ cmd = "setup"
    /\ pc = "failed"
    /\ error = "Insufficient privileges"
    /\ ora.granted # Views
    /\ ora.samples = "old"
    /\ ora.job = "old"

\* C20: over an existing installation, setup and teardown never leave the
\* sampler job in place while its DBZ_DIAG_SAMPLES table is dropped.
C20_JobNeverWithoutTable ==
    (ora.prior.samples = "old" /\ ora.prior.job = "old") =>
        ~(ora.job # "none" /\ ora.samples = "none")

\* C15: two engine calls on equal snapshots return equal outcomes, every
\* field and the warnings in the same order, whatever calls on other
\* snapshots ran before or between them.
C15_Deterministic ==
    \A i, j \in 1..Len(history) :
        history[i].snapshot = history[j].snapshot =>
            history[i].outcome = history[j].outcome

\* C15 witness: two calls on one snapshot that returned warnings, with a
\* call on another snapshot between them
C15_Witness ==
    /\ Len(history) = 3
    /\ history[1].snapshot = history[3].snapshot
    /\ history[2].snapshot # history[1].snapshot
    /\ ~history[1].outcome.threw
    /\ ~history[2].outcome.threw
    /\ history[1].outcome.value[1].warnings # << >>
    /\ history[2].outcome.value[1].warnings # << >>
====
